---- MODULE Spec2Model ----
(***************************************************************************)
(* Model of management/server/peer/peer.go: the Peer entity, its           *)
(* PeerStatus snapshot, its PeerSystemMeta and the operations on them.     *)
(*                                                                         *)
(* Go objects that are reached through a pointer or a slice live in heaps: *)
(*   peers    : *Peer        -> the sixteen fields of the Peer             *)
(*   statuses : *PeerStatus  -> the four fields of the PeerStatus          *)
(*   arrays   : backing array of a net.IP ([]byte) -> its bytes            *)
(* A pointer or slice is the address of its object, Nil when it is nil.    *)
(* Objects nobody references any more are collected (Go's GC), so an       *)
(* address can be used again for a later allocation.                       *)
(***************************************************************************)
EXTENDS Integers, Sequences, FiniteSets, TLC

VARIABLES
    peers,      \* heap of Peer objects
    statuses,   \* heap of PeerStatus objects
    arrays,     \* heap of the byte arrays behind net.IP slices
    now,        \* the wall clock read by time.Now()
    pc,         \* position of the caller inside a running operation
    frame,      \* locals of the running operation
    reader,     \* a second goroutine that captured p.Status and reads it
    call,       \* the last completed call: operation, arguments, result, state before
    steps       \* number of writes made through a Peer by its holder

vars == <<peers, statuses, arrays, now, pc, frame, reader, call, steps>>

---------------------------------------------------------------------------
(* Bounds of the model *)

MaxTime == 12        \* the clock runs from 0 to MaxTime
DurationBits == 4    \* width of time.Duration in the model (int64 in Go)
MaxSteps == 1        \* writes made through Peers by their holders
MaxPeers == 2        \* Peer objects on the heap
MaxStatuses == 4     \* PeerStatus objects on the heap

---------------------------------------------------------------------------
(* Values *)

Nil == 0             \* nil pointer, nil slice
P0 == 1              \* address of the Peer the operations are called on

PeerAddr == 1 .. MaxPeers
StatusAddr == 1 .. MaxStatuses

\* time.Time: the instant on the wall clock and the location it is shown in.
\* Monotonic readings are not carried: UTC() strips the one of time.Now() at
\* line 191, and Time.Sub falls back to the wall clock when either side has none.
Time(w, l) == [wall |-> w, loc |-> l]
ZeroTime == Time(0, "UTC")

\* time.Duration is a signed integer of DurationBits bits.
MinDuration == -(2 ^ (DurationBits - 1))
MaxDuration == (2 ^ (DurationBits - 1)) - 1
WrapDuration(x) == ((x - MinDuration) % (2 ^ DurationBits)) + MinDuration

\* time.Now(): the current instant, in the local location.
TimeNow(clock) == Time(clock, "Local")
\* Time.UTC(): the same instant with the location set to UTC.
TimeUTC(t) == [t EXCEPT !.loc = "UTC"]
\* Time.Add(d): the instant d later, same location.
TimeAdd(t, d) == [t EXCEPT !.wall = t.wall + d]
\* Time.Sub(u): t-u as a Duration; computed in Duration's width and, when the
\* result does not survive the round trip u.Add(d) = t, saturated.
TimeSub(t, u) ==
    LET d == WrapDuration(t.wall - u.wall)
    IN  IF u.wall + d = t.wall THEN d
        ELSE IF t.wall < u.wall THEN MinDuration
        ELSE MaxDuration

MetaFields == {"Hostname", "GoOS", "Kernel", "Core", "Platform", "OS",
               "OSVersion", "WtVersion", "UIVersion", "KernelVersion"}

BaseMeta == [Hostname |-> "host", GoOS |-> "linux", Kernel |-> "Linux",
             Core |-> "22.04", Platform |-> "x86_64", OS |-> "Ubuntu",
             OSVersion |-> "22.04", WtVersion |-> "0.25.0",
             UIVersion |-> "1.2", KernelVersion |-> "5.15"]

BaseLocation == [ConnectionIP |-> Nil, CountryCode |-> "DE",
                 CityName |-> "Berlin", GeoNameID |-> 2950159]

BaseStatus == [LastSeen |-> ZeroTime, Connected |-> FALSE,
               LoginExpired |-> FALSE, RequiresApproval |-> FALSE]

BasePeer == [ID |-> "peer1", AccountID |-> "acc1", Key |-> "wgkey",
             SetupKey |-> "setup", IP |-> Nil, Meta |-> BaseMeta,
             Name |-> "laptop", DNSLabel |-> "laptop", Status |-> Nil,
             UserID |-> "user1", SSHKey |-> "sshkey", SSHEnabled |-> FALSE,
             LoginExpirationEnabled |-> TRUE, LastLogin |-> ZeroTime,
             Ephemeral |-> FALSE, Location |-> BaseLocation]

PeerFields == DOMAIN BasePeer
StatusFields == DOMAIN BaseStatus

NoPrev == [op |-> "none", peer |-> Nil, arg |-> Nil]
NoCall == [op |-> "none", peer |-> Nil, arg |-> Nil, ret |-> Nil, clock |-> 0,
           prePeer |-> Nil, preStatus |-> Nil, prev |-> NoPrev]
NoFrame == [op |-> "none", p |-> Nil, arg |-> Nil, newStatus |-> Nil, clock |-> 0,
            prePeer |-> Nil, preStatus |-> Nil]
NoReader == [ref |-> Nil, snap |-> Nil, at |-> "idle", seen |-> <<>>]

---------------------------------------------------------------------------
(* Heaps *)

\* The least address of dom that heap h does not use.
NewAddr(h, dom) == CHOOSE a \in dom \ DOMAIN h : \A b \in dom \ DOMAIN h : a <= b
HasRoom(h, dom) == dom \ DOMAIN h # {}
\* h with object v allocated at address a.
Alloc(h, a, v) == [x \in DOMAIN h \cup {a} |-> IF x = a THEN v ELSE h[x]]
\* h without the objects that are not in live.
Collect(h, live) == [x \in DOMAIN h \cap live |-> h[x]]

\* The PeerStatus objects still referenced by a Peer, a local or the reader.
LiveStatuses(ps, fr, rd) ==
    {ps[x].Status : x \in DOMAIN ps} \cup {fr.newStatus, rd.ref}

\* What the PeerStatus pointer s shows: the four fields, or Nil.
StatusView(h, s) == IF s = Nil THEN Nil ELSE h[s]

---------------------------------------------------------------------------
(* Pure functions of peer.go *)

\* isEqual with the KernelVersion comparison left out.
isEqual_NoKernelVersion(p, other) ==
    /\ p.Hostname = other.Hostname
    /\ p.GoOS = other.GoOS
    /\ p.Kernel = other.Kernel
    /\ p.Core = other.Core
    /\ p.Platform = other.Platform
    /\ p.OS = other.OS
    /\ p.OSVersion = other.OSVersion
    /\ p.WtVersion = other.WtVersion
    /\ p.UIVersion = other.UIVersion

\* PeerSystemMeta.isEqual
isEqual(p, other) ==
    /\ p.Hostname = other.Hostname
    /\ p.GoOS = other.GoOS
    /\ p.Kernel = other.Kernel
    /\ p.KernelVersion = other.KernelVersion
    /\ p.Core = other.Core
    /\ p.Platform = other.Platform
    /\ p.OS = other.OS
    /\ p.OSVersion = other.OSVersion
    /\ p.WtVersion = other.WtVersion
    /\ p.UIVersion = other.UIVersion

\* Peer.AddedWithSSOLogin
AddedWithSSOLogin(p) == p.UserID # ""

\* PeerStatus.Copy: the fields of the new PeerStatus object.
PeerStatusCopy(s) ==
    [LastSeen |-> s.LastSeen,
     Connected |-> s.Connected,
     LoginExpired |-> s.LoginExpired,
     RequiresApproval |-> s.RequiresApproval]

\* Copy that keeps the PeerStatus of the original.
Copy_SharesStatus(p, peerStatus) ==
    [ID |-> p.ID,
     AccountID |-> p.AccountID,
     Key |-> p.Key,
     SetupKey |-> p.SetupKey,
     IP |-> p.IP,
     Meta |-> p.Meta,
     Name |-> p.Name,
     DNSLabel |-> p.DNSLabel,
     Status |-> p.Status,
     UserID |-> p.UserID,
     SSHKey |-> p.SSHKey,
     SSHEnabled |-> p.SSHEnabled,
     LoginExpirationEnabled |-> p.LoginExpirationEnabled,
     LastLogin |-> p.LastLogin,
     Ephemeral |-> p.Ephemeral,
     Location |-> p.Location]

\* Peer.Copy, lines 105-122: the fields of the new Peer, peerStatus being the
\* local of lines 101-104. IP and Location.ConnectionIP are slices: the new
\* Peer gets the same backing arrays.
Copy(p, peerStatus) ==
    [ID |-> p.ID,
     AccountID |-> p.AccountID,
     Key |-> p.Key,
     SetupKey |-> p.SetupKey,
     IP |-> p.IP,
     Meta |-> p.Meta,
     Name |-> p.Name,
     DNSLabel |-> p.DNSLabel,
     Status |-> peerStatus,
     UserID |-> p.UserID,
     SSHKey |-> p.SSHKey,
     SSHEnabled |-> p.SSHEnabled,
     LoginExpirationEnabled |-> p.LoginExpirationEnabled,
     LastLogin |-> p.LastLogin,
     Ephemeral |-> p.Ephemeral,
     Location |-> p.Location]

\* LoginExpired that returns early only when both conditions hold.
LoginExpired_BothConditions(p, expiresIn, clock) ==
    IF ~AddedWithSSOLogin(p) /\ ~p.LoginExpirationEnabled
    THEN <<FALSE, 0>>
    ELSE LET expiresAt == TimeAdd(p.LastLogin, expiresIn)
             timeLeft == TimeSub(expiresAt, TimeNow(clock))
         IN  <<timeLeft <= 0, timeLeft>>

\* LoginExpired that does not count timeLeft = 0 as expired.
LoginExpired_StrictBoundary(p, expiresIn, clock) ==
    IF ~AddedWithSSOLogin(p) \/ ~p.LoginExpirationEnabled
    THEN <<FALSE, 0>>
    ELSE LET expiresAt == TimeAdd(p.LastLogin, expiresIn)
             timeLeft == TimeSub(expiresAt, TimeNow(clock))
         IN  <<timeLeft < 0, timeLeft>>

\* Peer.LoginExpired, evaluated when the clock reads clock: <<expired, timeLeft>>.
LoginExpired(p, expiresIn, clock) ==
    IF ~AddedWithSSOLogin(p) \/ ~p.LoginExpirationEnabled
    THEN <<FALSE, 0>>
    ELSE LET expiresAt == TimeAdd(p.LastLogin, expiresIn)
             timeLeft == TimeSub(expiresAt, TimeNow(clock))
         IN  <<timeLeft <= 0, timeLeft>>

\* UpdateMetaIfNew without the UIVersion substitution.
UpdateMetaIfNew_NoSubstitution(p, meta) ==
    IF isEqual(p.Meta, meta)
    THEN [meta |-> meta, Meta |-> p.Meta, ret |-> FALSE]
    ELSE [meta |-> meta, Meta |-> meta, ret |-> TRUE]

\* UpdateMetaIfNew that compares before it substitutes the UIVersion.
UpdateMetaIfNew_CompareFirst(p, meta) ==
    LET m == IF meta.UIVersion = ""
             THEN [meta EXCEPT !.UIVersion = p.Meta.UIVersion]
             ELSE meta
    IN  IF isEqual(p.Meta, meta)
        THEN [meta |-> m, Meta |-> p.Meta, ret |-> FALSE]
        ELSE [meta |-> m, Meta |-> m, ret |-> TRUE]

\* Peer.UpdateMetaIfNew: the local meta after the UIVersion substitution, the
\* Meta stored afterwards and the returned flag.
UpdateMetaIfNew(p, meta) ==
    LET m == IF meta.UIVersion = ""
             THEN [meta EXCEPT !.UIVersion = p.Meta.UIVersion]
             ELSE meta
    IN  IF isEqual(p.Meta, m)
        THEN [meta |-> m, Meta |-> p.Meta, ret |-> FALSE]
        ELSE [meta |-> m, Meta |-> m, ret |-> TRUE]

\* fmt.Sprintf("%s.%s", a, b)
SprintfDot(a, b) == a \o "." \o b

\* FQDN without the test for an empty dnsDomain.
FQDN_NoEmptyTest(p, dnsDomain) == SprintfDot(p.DNSLabel, dnsDomain)

\* Peer.FQDN
FQDN(p, dnsDomain) ==
    IF dnsDomain = ""
    THEN ""
    ELSE SprintfDot(p.DNSLabel, dnsDomain)

\* EventMeta that reports the DNS label as the fqdn.
EventMeta_LabelAsFQDN(p, dnsDomain) ==
    [name |-> p.Name, fqdn |-> p.DNSLabel, ip |-> p.IP]

\* Peer.EventMeta: the map, a function on its keys.
EventMeta(p, dnsDomain) ==
    [name |-> p.Name, fqdn |-> FQDN(p, dnsDomain), ip |-> p.IP]

---------------------------------------------------------------------------
(* Calls *)

\* The record of a call of op on the Peer at p that has just returned ret: what
\* it was given, what the clock read, the Peer and its PeerStatus as they were
\* before, and the call that came before it.
Completed(op, p, arg, ret) ==
    call' = [op |-> op, peer |-> p, arg |-> arg, ret |-> ret, clock |-> now,
             prePeer |-> peers[p],
             preStatus |-> StatusView(statuses, peers[p].Status),
             prev |-> [op |-> call.op, peer |-> call.peer, arg |-> call.arg]]

\* The same for an operation that ran in several steps: the state before is
\* the one its first step found.
Returned(ret) ==
    call' = [op |-> frame.op, peer |-> frame.p, arg |-> frame.arg, ret |-> ret,
             clock |-> frame.clock, prePeer |-> frame.prePeer,
             preStatus |-> frame.preStatus,
             prev |-> [op |-> call.op, peer |-> call.peer, arg |-> call.arg]]

\* The locals of op entered on the Peer at p.
Entered(op, p, arg, newStatus) ==
    [op |-> op, p |-> p, arg |-> arg, newStatus |-> newStatus, clock |-> now,
     prePeer |-> peers[p], preStatus |-> StatusView(statuses, peers[p].Status)]

\* The clock advances.
Tick ==
    /\ now < MaxTime
    /\ now' = now + 1
    /\ UNCHANGED <<peers, statuses, arrays, pc, frame, reader, call, steps>>

\* LoginExpired that keeps its answer in p.Status.LoginExpired.
CallLoginExpired_StoresResult(p, expiresIn) ==
    /\ pc = "idle"
    /\ p \in DOMAIN peers
    /\ Completed("LoginExpired", p, expiresIn,
                 LoginExpired(peers[p], expiresIn, now))
    /\ statuses' = IF peers[p].Status = Nil THEN statuses
                   ELSE [statuses EXCEPT ![peers[p].Status].LoginExpired =
                            LoginExpired(peers[p], expiresIn, now)[1]]
    /\ UNCHANGED <<peers, arrays, now, pc, frame, reader, steps>>

\* p.LoginExpired(expiresIn)
CallLoginExpired(p, expiresIn) ==
    /\ pc = "idle"
    /\ p \in DOMAIN peers
    /\ Completed("LoginExpired", p, expiresIn,
                 LoginExpired(peers[p], expiresIn, now))
    /\ UNCHANGED <<peers, statuses, arrays, now, pc, frame, reader, steps>>

\* p.AddedWithSSOLogin()
CallAddedWithSSOLogin(p) ==
    /\ pc = "idle"
    /\ p \in DOMAIN peers
    /\ Completed("AddedWithSSOLogin", p, Nil, AddedWithSSOLogin(peers[p]))
    /\ UNCHANGED <<peers, statuses, arrays, now, pc, frame, reader, steps>>

\* p.UpdateMetaIfNew(meta); meta is passed by value and holds strings only,
\* so the caller's meta is after the call what it was before.
CallUpdateMetaIfNew(p, meta) ==
    /\ pc = "idle"
    /\ p \in DOMAIN peers
    /\ LET r == UpdateMetaIfNew(peers[p], meta)
       IN  /\ peers' = [peers EXCEPT ![p].Meta = r.Meta]
           /\ Completed("UpdateMetaIfNew", p, meta, r.ret)
    /\ UNCHANGED <<statuses, arrays, now, pc, frame, reader, steps>>

---------------------------------------------------------------------------
(* Login expiration: a Peer, the clock and calls of LoginExpired *)

LastLogins == {0, 1, MaxTime - 2}
ExpiresIns == {MinDuration, -1, 0, 1, 2, MaxDuration}

InitIdle ==
    /\ arrays = <<>>
    /\ pc = "idle"
    /\ frame = NoFrame
    /\ reader = NoReader
    /\ call = NoCall
    /\ steps = 0

InitExpiry ==
    /\ \E uid \in {"", "user1"}, enabled \in BOOLEAN, ll \in LastLogins :
         peers = (P0 :> [BasePeer EXCEPT !.UserID = uid,
                                         !.LoginExpirationEnabled = enabled,
                                         !.LastLogin = Time(ll, "UTC"),
                                         !.Status = 1])
    /\ \E le \in BOOLEAN :
         statuses = (1 :> [BaseStatus EXCEPT !.LoginExpired = le])
    /\ now = 0
    /\ InitIdle

NextExpiry ==
    \/ Tick
    \/ \E e \in ExpiresIns : CallLoginExpired(P0, e)

SpecExpiry == InitExpiry /\ [][NextExpiry]_vars

\* The last call was LoginExpired on a Peer that is gated / not gated.
GatedCall ==
    /\ call.op = "LoginExpired"
    /\ (call.prePeer.UserID = "" \/ ~call.prePeer.LoginExpirationEnabled)
UngatedCall ==
    /\ call.op = "LoginExpired"
    /\ call.prePeer.UserID # ""
    /\ call.prePeer.LoginExpirationEnabled

\* LastLogin + expiresIn - now of the last call, as an unbounded integer.
ExactTimeLeft == call.prePeer.LastLogin.wall + call.arg - call.clock

Saturate(x) ==
    IF x < MinDuration THEN MinDuration
    ELSE IF x > MaxDuration THEN MaxDuration
    ELSE x

\* C5 (expiration gating): a Peer whose UserID is empty or whose
\* LoginExpirationEnabled is false gets (false, 0) from LoginExpired, whatever
\* its LastLogin, the expiresIn, the clock and Status.LoginExpired.
ExpirationGating == GatedCall => call.ret = <<FALSE, 0>>

\* A Peer without UserID, long past LastLogin + expiresIn, marked expired in
\* its Status, was asked and answered (false, 0).
ExpirationGatingWitness ==
    /\ call.op = "LoginExpired"
    /\ call.prePeer.UserID = ""
    /\ call.prePeer.LoginExpirationEnabled
    /\ call.preStatus.LoginExpired
    /\ ExactTimeLeft < 0
    /\ call.ret = <<FALSE, 0>>

\* C6 as stated (expiration arithmetic): for a Peer with UserID and
\* LoginExpirationEnabled, LoginExpired returns timeLeft = LastLogin +
\* expiresIn - now exactly, and expired = (timeLeft <= 0).
ExpirationArithmeticExact ==
    UngatedCall =>
        /\ call.ret[2] = ExactTimeLeft
        /\ call.ret[1] = (call.ret[2] <= 0)

\* C6 as amended: timeLeft is LastLogin + expiresIn - now saturated to the
\* range of a Duration (so exact whenever it fits, negative values kept and
\* never clamped to zero), and expired = (timeLeft <= 0), which is true
\* exactly when LastLogin + expiresIn <= now; timeLeft = 0 counts as expired.
ExpirationArithmetic ==
    UngatedCall =>
        /\ call.ret[2] = Saturate(ExactTimeLeft)
        /\ call.ret[1] = (call.ret[2] <= 0)
        /\ call.ret[1] = (ExactTimeLeft <= 0)

\* LastLogin = T, expiresIn = 1, now = T + 2 gave (true, -1).
ExpirationArithmeticWitness ==
    /\ UngatedCall
    /\ call.arg = 1
    /\ call.clock = call.prePeer.LastLogin.wall + 2
    /\ call.ret = <<TRUE, -1>>

---------------------------------------------------------------------------
(* Metadata reconciliation: a Peer and calls of UpdateMetaIfNew *)

UIVersions == {"", "1.2", "1.3"}

\* Reports that differ from BaseMeta in at most one field besides UIVersion.
MetaInputs ==
    {[[BaseMeta EXCEPT ![f] = "other"] EXCEPT !.UIVersion = u] :
        f \in MetaFields, u \in UIVersions}

InitMeta ==
    /\ \E u \in {"", "1.2"} :
         peers = (P0 :> [BasePeer EXCEPT !.Meta.UIVersion = u])
    /\ statuses = <<>>
    /\ now = 0
    /\ InitIdle

NextMeta == \E m \in MetaInputs : CallUpdateMetaIfNew(P0, m)

SpecMeta == InitMeta /\ [][NextMeta]_vars

\* The incoming meta of the last call with an empty UIVersion replaced by the
\* UIVersion stored before the call.
Adjusted ==
    IF call.arg.UIVersion = ""
    THEN [call.arg EXCEPT !.UIVersion = call.prePeer.Meta.UIVersion]
    ELSE call.arg

\* C7 (UIVersion preservation): after UpdateMetaIfNew(meta) with an empty
\* meta.UIVersion the stored UIVersion is the one stored before; if the other
\* nine fields equal the stored ones too, the call returns false and the
\* stored Meta is unchanged.
UIVersionPreservation ==
    (call.op = "UpdateMetaIfNew" /\ call.arg.UIVersion = "") =>
        /\ peers[call.peer].Meta.UIVersion = call.prePeer.Meta.UIVersion
        /\ (\A f \in MetaFields \ {"UIVersion"} :
                call.arg[f] = call.prePeer.Meta[f])
           => (call.ret = FALSE /\ peers[call.peer].Meta = call.prePeer.Meta)

\* Stored UIVersion "1.2", incoming UIVersion "" and the rest identical:
\* not updated, "1.2" still stored.
UIVersionPreservationWitness ==
    /\ call.op = "UpdateMetaIfNew"
    /\ call.arg.UIVersion = ""
    /\ call.prePeer.Meta.UIVersion = "1.2"
    /\ \A f \in MetaFields \ {"UIVersion"} : call.arg[f] = call.prePeer.Meta[f]
    /\ call.ret = FALSE
    /\ peers[call.peer].Meta.UIVersion = "1.2"

\* C8 (metadata update and write suppression): UpdateMetaIfNew returns true
\* exactly when the adjusted incoming meta differs from the stored Meta in one
\* of the ten fields, and then the stored Meta becomes the adjusted meta; it
\* returns false exactly when they are equal, and then the stored Meta is
\* unchanged; the flag is true iff the stored Meta changed.
MetaUpdate ==
    call.op = "UpdateMetaIfNew" =>
        /\ call.ret = (\E f \in MetaFields : Adjusted[f] # call.prePeer.Meta[f])
        /\ call.ret => peers[call.peer].Meta = Adjusted
        /\ ~call.ret => peers[call.peer].Meta = call.prePeer.Meta
        /\ call.ret = (peers[call.peer].Meta # call.prePeer.Meta)

\* Incoming UIVersion "1.3" over stored "1.2", the rest identical: updated,
\* "1.3" stored.
MetaUpdateWitness ==
    /\ call.op = "UpdateMetaIfNew"
    /\ call.prePeer.Meta.UIVersion = "1.2"
    /\ call.arg = [call.prePeer.Meta EXCEPT !.UIVersion = "1.3"]
    /\ call.ret = TRUE
    /\ peers[call.peer].Meta.UIVersion = "1.3"

\* The last two calls were UpdateMetaIfNew on the same Peer with the same meta.
SameMetaTwice ==
    /\ call.op = "UpdateMetaIfNew"
    /\ call.prev.op = "UpdateMetaIfNew"
    /\ call.prev.peer = call.peer
    /\ call.prev.arg = call.arg

\* C9 (metadata idempotence): the second of two consecutive calls
\* UpdateMetaIfNew(m) with the same m returns false and leaves the stored Meta
\* as the first call left it.
MetaIdempotence ==
    SameMetaTwice =>
        /\ call.ret = FALSE
        /\ peers[call.peer].Meta = call.prePeer.Meta

\* The same report with an empty UIVersion and a new Hostname was made twice
\* to a Peer that stores a UIVersion.
MetaIdempotenceWitness ==
    /\ SameMetaTwice
    /\ call.arg.UIVersion = ""
    /\ call.arg.Hostname # BaseMeta.Hostname
    /\ peers[call.peer].Meta.UIVersion = "1.2"
    /\ peers[call.peer].Meta.Hostname = call.arg.Hostname

---------------------------------------------------------------------------
(* Status transitions: MarkLoginExpired and UpdateLastLogin statement by    *)
(* statement, the clock, and a reader of p.Status running beside them       *)

\* The PeerStatus heap after a step: what is no longer referenced is collected.
Collected(h, ps, fr, rd) == Collect(h, LiveStatuses(ps, fr, rd))

\* line 142: newStatus := p.Status.Copy(), p.Status not nil
MLE_142(p, expired) ==
    /\ pc = "idle"
    /\ p \in DOMAIN peers
    /\ peers[p].Status # Nil
    /\ HasRoom(statuses, StatusAddr)
    /\ LET a == NewAddr(statuses, StatusAddr)
       IN  /\ statuses' = Alloc(statuses, a, PeerStatusCopy(statuses[peers[p].Status]))
           /\ frame' = Entered("MarkLoginExpired", p, expired, a)
    /\ pc' = "MLE_143"
    /\ UNCHANGED <<peers, arrays, now, reader, call, steps>>

\* line 142 with PeerStatus.Copy answering a nil receiver with an empty
\* PeerStatus.
MLE_142_NilAsEmpty(p, expired) ==
    /\ pc = "idle"
    /\ p \in DOMAIN peers
    /\ peers[p].Status = Nil
    /\ HasRoom(statuses, StatusAddr)
    /\ LET a == NewAddr(statuses, StatusAddr)
       IN  /\ statuses' = Alloc(statuses, a, BaseStatus)
           /\ frame' = Entered("MarkLoginExpired", p, expired, a)
    /\ pc' = "MLE_143"
    /\ UNCHANGED <<peers, arrays, now, reader, call, steps>>

\* line 142 with p.Status nil: PeerStatus.Copy reads p.LastSeen through nil.
MLE_142_Panic(p, expired) ==
    /\ pc = "idle"
    /\ p \in DOMAIN peers
    /\ peers[p].Status = Nil
    /\ frame' = Entered("MarkLoginExpired", p, expired, Nil)
    /\ pc' = "panic"
    /\ UNCHANGED <<peers, statuses, arrays, now, reader, call, steps>>

\* line 143 written as p.Status.LoginExpired = expired.
MLE_143_InPlace ==
    /\ pc = "MLE_143"
    /\ statuses' = [statuses EXCEPT ![peers[frame.p].Status].LoginExpired = frame.arg]
    /\ pc' = "MLE_144"
    /\ UNCHANGED <<peers, arrays, now, frame, reader, call, steps>>

\* line 143 that can set the flag but not clear it.
MLE_143_Sticky ==
    /\ pc = "MLE_143"
    /\ statuses' = [statuses EXCEPT ![frame.newStatus].LoginExpired =
                        statuses[frame.newStatus].LoginExpired \/ frame.arg]
    /\ pc' = "MLE_144"
    /\ UNCHANGED <<peers, arrays, now, frame, reader, call, steps>>

\* line 143: newStatus.LoginExpired = expired
MLE_143 ==
    /\ pc = "MLE_143"
    /\ statuses' = [statuses EXCEPT ![frame.newStatus].LoginExpired = frame.arg]
    /\ pc' = "MLE_144"
    /\ UNCHANGED <<peers, arrays, now, frame, reader, call, steps>>

\* lines 144-146 without the forced disconnect.
MLE_144_KeepConnected ==
    /\ pc = "MLE_144"
    /\ pc' = "MLE_147"
    /\ UNCHANGED <<peers, statuses, arrays, now, frame, reader, call, steps>>

\* lines 144-146: if expired { newStatus.Connected = false }
MLE_144 ==
    /\ pc = "MLE_144"
    /\ statuses' = IF frame.arg
                   THEN [statuses EXCEPT ![frame.newStatus].Connected = FALSE]
                   ELSE statuses
    /\ pc' = "MLE_147"
    /\ UNCHANGED <<peers, arrays, now, frame, reader, call, steps>>

\* line 147 that stores the login time as well, as UpdateLastLogin does.
MLE_147_ResetsLastLogin ==
    /\ pc = "MLE_147"
    /\ peers' = [peers EXCEPT ![frame.p].Status = frame.newStatus,
                              ![frame.p].LastLogin = TimeUTC(TimeNow(now))]
    /\ frame' = NoFrame
    /\ statuses' = Collected(statuses, peers', frame', reader)
    /\ Returned(Nil)
    /\ pc' = "idle"
    /\ UNCHANGED <<arrays, now, reader, steps>>

\* line 147: p.Status = newStatus, and return
MLE_147 ==
    /\ pc = "MLE_147"
    /\ peers' = [peers EXCEPT ![frame.p].Status = frame.newStatus]
    /\ frame' = NoFrame
    /\ statuses' = Collected(statuses, peers', frame', reader)
    /\ Returned(Nil)
    /\ pc' = "idle"
    /\ UNCHANGED <<arrays, now, reader, steps>>

\* line 191 left out.
ULL_191_KeepLastLogin(p) ==
    /\ pc = "idle"
    /\ p \in DOMAIN peers
    /\ frame' = Entered("UpdateLastLogin", p, Nil, Nil)
    /\ pc' = "ULL_192"
    /\ UNCHANGED <<peers, statuses, arrays, now, reader, call, steps>>

\* line 191: p.LastLogin = time.Now().UTC()
ULL_191(p) ==
    /\ pc = "idle"
    /\ p \in DOMAIN peers
    /\ frame' = Entered("UpdateLastLogin", p, Nil, Nil)
    /\ peers' = [peers EXCEPT ![p].LastLogin = TimeUTC(TimeNow(now))]
    /\ pc' = "ULL_192"
    /\ UNCHANGED <<statuses, arrays, now, reader, call, steps>>

\* line 192: newStatus := p.Status.Copy(), p.Status not nil
ULL_192 ==
    /\ pc = "ULL_192"
    /\ peers[frame.p].Status # Nil
    /\ HasRoom(statuses, StatusAddr)
    /\ LET a == NewAddr(statuses, StatusAddr)
       IN  /\ statuses' = Alloc(statuses, a,
                                PeerStatusCopy(statuses[peers[frame.p].Status]))
           /\ frame' = [frame EXCEPT !.newStatus = a]
    /\ pc' = "ULL_193"
    /\ UNCHANGED <<peers, arrays, now, reader, call, steps>>

\* line 192 with p.Status nil: PeerStatus.Copy reads p.LastSeen through nil.
ULL_192_Panic ==
    /\ pc = "ULL_192"
    /\ peers[frame.p].Status = Nil
    /\ pc' = "panic"
    /\ UNCHANGED <<peers, statuses, arrays, now, frame, reader, call, steps>>

\* line 193 left out.
ULL_193_KeepExpired ==
    /\ pc = "ULL_193"
    /\ pc' = "ULL_194"
    /\ UNCHANGED <<peers, statuses, arrays, now, frame, reader, call, steps>>

\* line 193: newStatus.LoginExpired = false
ULL_193 ==
    /\ pc = "ULL_193"
    /\ statuses' = [statuses EXCEPT ![frame.newStatus].LoginExpired = FALSE]
    /\ pc' = "ULL_194"
    /\ UNCHANGED <<peers, arrays, now, frame, reader, call, steps>>

\* lines 194-195: p.Status = newStatus; return p
ULL_194 ==
    /\ pc = "ULL_194"
    /\ peers' = [peers EXCEPT ![frame.p].Status = frame.newStatus]
    /\ frame' = NoFrame
    /\ statuses' = Collected(statuses, peers', frame', reader)
    /\ Returned(frame.p)
    /\ pc' = "idle"
    /\ UNCHANGED <<arrays, now, reader, steps>>

\* Another goroutine reads p.Status and keeps the reference: the one stored
\* by the last store to p.Status that has run, the statements of the two
\* goroutines being interleaved. snap remembers what the PeerStatus held at
\* that moment, at where the caller was.
ReaderCapture(p) ==
    /\ pc # "panic"
    /\ p \in DOMAIN peers
    /\ peers[p].Status # Nil
    /\ peers[p].Status # reader.ref
    /\ reader' = [ref |-> peers[p].Status, snap |-> statuses[peers[p].Status],
                  at |-> pc, seen |-> <<>>]
    /\ statuses' = Collected(statuses, peers, frame, reader')
    /\ UNCHANGED <<peers, arrays, now, pc, frame, call, steps>>

\* It reads one field through the reference it kept.
ReaderRead(f) ==
    /\ pc # "panic"
    /\ reader.ref # Nil
    /\ f \notin DOMAIN reader.seen
    /\ reader' = [reader EXCEPT
                    !.seen = [g \in DOMAIN reader.seen \cup {f} |->
                                 statuses[reader.ref][g]]]
    /\ UNCHANGED <<peers, statuses, arrays, now, pc, frame, call, steps>>

MaxClock == 3     \* the clock runs from 1 to MaxClock beside status transitions

TickStatus == now < MaxClock /\ Tick

InitStatus ==
    /\ \E st \in {Nil, 1} : peers = (P0 :> [BasePeer EXCEPT !.Status = st])
    /\ \E c \in BOOLEAN, le \in BOOLEAN :
         statuses = IF peers[P0].Status = Nil THEN <<>>
                    ELSE (1 :> [LastSeen |-> Time(1, "UTC"), Connected |-> c,
                                LoginExpired |-> le, RequiresApproval |-> TRUE])
    /\ now = 1
    /\ InitIdle

Next ==
    \/ \E e \in BOOLEAN : MLE_142(P0, e)
    \/ \E e \in BOOLEAN : MLE_142_Panic(P0, e)
    \/ MLE_143
    \/ MLE_144
    \/ MLE_147
    \/ ULL_191(P0)
    \/ ULL_192
    \/ ULL_192_Panic
    \/ ULL_193
    \/ ULL_194
    \/ ReaderCapture(P0)
    \/ \E f \in StatusFields : ReaderRead(f)

Spec == InitStatus /\ [][Next]_vars

\* The same operations with the clock running and nobody reading beside them.
NextLogin ==
    \/ \E e \in BOOLEAN : MLE_142(P0, e)
    \/ \E e \in BOOLEAN : MLE_142_Panic(P0, e)
    \/ MLE_143
    \/ MLE_144
    \/ MLE_147
    \/ ULL_191(P0)
    \/ ULL_192
    \/ ULL_192_Panic
    \/ ULL_193
    \/ ULL_194
    \/ TickStatus

SpecLogin == InitStatus /\ [][NextLogin]_vars

\* C2 (copy-on-write status under interleaving): whatever the reader reads
\* through the reference it captured from p.Status, between any two steps of
\* MarkLoginExpired and UpdateLastLogin, equals what that PeerStatus held when
\* it was captured, and the PeerStatus still holds exactly that: no step
\* writes to a PeerStatus after it has been stored in p.Status.
CopyOnWriteStatus ==
    reader.ref # Nil =>
        /\ statuses[reader.ref] = reader.snap
        /\ \A f \in DOMAIN reader.seen : reader.seen[f] = reader.snap[f]

\* The reader holds a PeerStatus that p.Status has since left, captured while
\* MarkLoginExpired(true) was between its steps on a connected Peer, and has
\* read all four fields of it.
CopyOnWriteStatusWitness ==
    /\ reader.ref # Nil
    /\ reader.ref # peers[P0].Status
    /\ reader.snap.Connected
    /\ DOMAIN reader.seen = StatusFields
    /\ call.op = "MarkLoginExpired"
    /\ call.arg = TRUE
    /\ call.prePeer.Status = reader.ref
    /\ reader.at = "MLE_144"
    /\ pc = "idle"

\* The caller is between two operations and the last one was op.
JustReturned(op) == pc = "idle" /\ call.op = op

\* The PeerStatus that p.Status referenced before the last call, if it is
\* still referenced by someone, holds what it held then.
OldStatusUnchanged ==
    call.prePeer.Status \in DOMAIN statuses =>
        statuses[call.prePeer.Status] = call.preStatus

\* C3 (forced disconnect on expiry): after MarkLoginExpired(e) on a Peer with
\* Status s, p.Status is a new PeerStatus with LoginExpired = e, Connected =
\* (s.Connected and not e), LastSeen and RequiresApproval those of s; s itself
\* is unchanged.
ForcedDisconnect ==
    JustReturned("MarkLoginExpired") =>
        LET s == call.preStatus
            n == statuses[peers[call.peer].Status]
        IN  /\ peers[call.peer].Status # Nil
            /\ peers[call.peer].Status # call.prePeer.Status
            /\ n.LoginExpired = call.arg
            /\ n.Connected = (s.Connected /\ ~call.arg)
            /\ n.LastSeen = s.LastSeen
            /\ n.RequiresApproval = s.RequiresApproval
            /\ OldStatusUnchanged

\* MarkLoginExpired(true) returned on a Peer that was connected, while the
\* reader still holds the PeerStatus it replaced.
ForcedDisconnectWitness ==
    /\ JustReturned("MarkLoginExpired")
    /\ call.arg = TRUE
    /\ call.preStatus.Connected
    /\ reader.ref = call.prePeer.Status
    /\ ~statuses[peers[call.peer].Status].Connected
    /\ statuses[peers[call.peer].Status].LoginExpired

\* C4 (login reset): UpdateLastLogin() on a Peer with a Status, reading the
\* clock at t, sets LastLogin to t (in UTC), replaces Status by a new
\* PeerStatus with LoginExpired = false and Connected, LastSeen and
\* RequiresApproval as before, and returns the Peer it was called on.
LoginReset ==
    JustReturned("UpdateLastLogin") =>
        LET s == call.preStatus
            n == statuses[peers[call.peer].Status]
        IN  /\ peers[call.peer].LastLogin = Time(call.clock, "UTC")
            /\ peers[call.peer].Status # Nil
            /\ peers[call.peer].Status # call.prePeer.Status
            /\ n.LoginExpired = FALSE
            /\ n.Connected = s.Connected
            /\ n.LastSeen = s.LastSeen
            /\ n.RequiresApproval = s.RequiresApproval
            /\ call.ret = call.peer

\* UpdateLastLogin() returned on a connected Peer whose login was expired,
\* later than the LastLogin it had.
LoginResetWitness ==
    /\ JustReturned("UpdateLastLogin")
    /\ call.preStatus.LoginExpired
    /\ call.preStatus.Connected
    /\ call.clock > call.prePeer.LastLogin.wall
    /\ ~statuses[peers[call.peer].Status].LoginExpired

---------------------------------------------------------------------------
(* Copies: Copy, and the holders of a Peer writing through it *)

\* c := p.Copy()
CallCopy(p) ==
    /\ pc = "idle"
    /\ p \in DOMAIN peers
    /\ HasRoom(peers, PeerAddr)
    /\ peers[p].Status # Nil => HasRoom(statuses, StatusAddr)
    /\ LET peerStatus == IF peers[p].Status # Nil
                         THEN NewAddr(statuses, StatusAddr)
                         ELSE peers[p].Status
           c == NewAddr(peers, PeerAddr)
       IN  /\ peers' = Alloc(peers, c, Copy(peers[p], peerStatus))
           /\ statuses' =
                 Collected(IF peers[p].Status # Nil
                           THEN Alloc(statuses, peerStatus,
                                      PeerStatusCopy(statuses[peers[p].Status]))
                           ELSE statuses,
                           peers', frame, reader)
           /\ Completed("Copy", p, Nil, c)
    /\ UNCHANGED <<arrays, now, pc, frame, reader, steps>>

\* Values a holder assigns and writes.
OtherPeer ==
    [ID |-> "peer2", AccountID |-> "acc2", Key |-> "wgkey2",
     SetupKey |-> "setup2", IP |-> Nil,
     Meta |-> [BaseMeta EXCEPT !.Hostname = "other"],
     Name |-> "desktop", DNSLabel |-> "desktop", Status |-> Nil,
     UserID |-> "", SSHKey |-> "sshkey2", SSHEnabled |-> TRUE,
     LoginExpirationEnabled |-> FALSE, LastLogin |-> Time(1, "UTC"),
     Ephemeral |-> TRUE,
     Location |-> [BaseLocation EXCEPT !.CityName = "Paris"]]
OtherStatus ==
    [LastSeen |-> Time(2, "UTC"), Connected |-> TRUE, LoginExpired |-> TRUE,
     RequiresApproval |-> FALSE]
OtherByte == 255
IPv4 == <<100, 64, 0, 1>>
ConnIPv4 == <<203, 0, 113, 7>>
ByteIndexes == {1, Len(IPv4)}

\* x.f = v, for any of the sixteen fields
AssignField(x, f) ==
    /\ pc = "idle"
    /\ x \in DOMAIN peers
    /\ steps < MaxSteps
    /\ steps' = steps + 1
    /\ peers' = [peers EXCEPT ![x][f] = OtherPeer[f]]
    /\ statuses' = Collected(statuses, peers', frame, reader)
    /\ Completed("Write", x, f, Nil)
    /\ UNCHANGED <<arrays, now, pc, frame, reader>>

\* x.Status.f = v
WriteStatusField(x, f) ==
    /\ pc = "idle"
    /\ x \in DOMAIN peers
    /\ peers[x].Status # Nil
    /\ steps < MaxSteps
    /\ steps' = steps + 1
    /\ statuses' = [statuses EXCEPT ![peers[x].Status][f] = OtherStatus[f]]
    /\ Completed("Write", x, <<"Status", f>>, Nil)
    /\ UNCHANGED <<peers, arrays, now, pc, frame, reader>>

\* x.IP[i] = b
WriteIPByte(x, i) ==
    /\ pc = "idle"
    /\ x \in DOMAIN peers
    /\ peers[x].IP # Nil
    /\ steps < MaxSteps
    /\ steps' = steps + 1
    /\ arrays' = [arrays EXCEPT ![peers[x].IP][i] = OtherByte]
    /\ Completed("Write", x, <<"IP", i>>, Nil)
    /\ UNCHANGED <<peers, statuses, now, pc, frame, reader>>

\* x.Location.ConnectionIP[i] = b
WriteConnectionIPByte(x, i) ==
    /\ pc = "idle"
    /\ x \in DOMAIN peers
    /\ peers[x].Location.ConnectionIP # Nil
    /\ steps < MaxSteps
    /\ steps' = steps + 1
    /\ arrays' = [arrays EXCEPT ![peers[x].Location.ConnectionIP][i] = OtherByte]
    /\ Completed("Write", x, <<"Location.ConnectionIP", i>>, Nil)
    /\ UNCHANGED <<peers, statuses, now, pc, frame, reader>>

InitCopy ==
    /\ \E st \in {Nil, 1}, ip \in {Nil, 1}, cip \in {Nil, 2} :
         peers = (P0 :> [BasePeer EXCEPT !.Status = st, !.IP = ip,
                                         !.Location.ConnectionIP = cip])
    /\ statuses = IF peers[P0].Status = Nil THEN <<>>
                  ELSE (1 :> [LastSeen |-> Time(1, "UTC"), Connected |-> FALSE,
                              LoginExpired |-> FALSE, RequiresApproval |-> TRUE])
    /\ arrays = [a \in {peers[P0].IP, peers[P0].Location.ConnectionIP} \ {Nil}
                   |-> IF a = 1 THEN IPv4 ELSE ConnIPv4]
    /\ now = 0
    /\ pc = "idle"
    /\ frame = NoFrame
    /\ reader = NoReader
    /\ call = NoCall
    /\ steps = 0

NextCopy ==
    \/ \E x \in PeerAddr : CallCopy(x)
    \/ \E x \in PeerAddr, f \in PeerFields : AssignField(x, f)
    \/ \E x \in PeerAddr, f \in StatusFields : WriteStatusField(x, f)
    \/ \E x \in PeerAddr, i \in ByteIndexes : WriteIPByte(x, i)
    \/ \E x \in PeerAddr, i \in ByteIndexes : WriteConnectionIPByte(x, i)

SpecCopy == InitCopy /\ [][NextCopy]_vars

\* The bytes the slice ip shows, or Nil.
ArrayView(h, ip) == IF ip = Nil THEN Nil ELSE h[ip]

\* Everything that can be observed through the Peer at x: its fields, the
\* fields of its Status, the bytes of its IP and of its Location.ConnectionIP.
View(x) ==
    [peer |-> peers[x],
     status |-> StatusView(statuses, peers[x].Status),
     ip |-> ArrayView(arrays, peers[x].IP),
     connectionIP |-> ArrayView(arrays, peers[x].Location.ConnectionIP)]

\* C1 (copy independence): a write made through one Peer - assigning a field,
\* writing a field of its Status, changing a byte of its IP or of its
\* Location.ConnectionIP - leaves everything observable through the Peers it
\* was copied from, or that were copied from it, unchanged.
CopyIndependence ==
    [][\A x \in DOMAIN peers, y \in DOMAIN peers :
         (x # y /\ call'.op = "Write" /\ call'.peer = x)
             => View(y)' = View(y)]_vars

\* C10 (copy fidelity): p.Copy() returns a new Peer whose fields other than
\* Status equal those of p; a nil Status is copied as nil; a Status that is
\* not nil is copied as another PeerStatus with the same four fields.
CopyFidelity ==
    call.op = "Copy" =>
        LET p == peers[call.peer]
            c == peers[call.ret]
        IN  /\ call.ret # call.peer
            /\ \A f \in PeerFields \ {"Status"} : c[f] = p[f]
            /\ p.Status = Nil => c.Status = Nil
            /\ p.Status # Nil =>
                  /\ c.Status # Nil
                  /\ c.Status # p.Status
                  /\ statuses[c.Status] = statuses[p.Status]

\* A Peer with a Status and an IP, written to before, has been copied.
CopyFidelityWitness ==
    /\ call.op = "Copy"
    /\ call.prev.op = "Write"
    /\ call.prePeer.Status # Nil
    /\ call.prePeer.IP # Nil
    /\ call.prePeer.Ephemeral
    /\ peers[call.ret].Ephemeral
    /\ peers[call.ret].Status # call.prePeer.Status

---------------------------------------------------------------------------
(* Derived values: a Peer and calls of FQDN and EventMeta *)

\* p.FQDN(dnsDomain)
CallFQDN(p, dnsDomain) ==
    /\ pc = "idle"
    /\ p \in DOMAIN peers
    /\ Completed("FQDN", p, dnsDomain, FQDN(peers[p], dnsDomain))
    /\ UNCHANGED <<peers, statuses, arrays, now, pc, frame, reader, steps>>

\* p.EventMeta(dnsDomain)
CallEventMeta(p, dnsDomain) ==
    /\ pc = "idle"
    /\ p \in DOMAIN peers
    /\ Completed("EventMeta", p, dnsDomain, EventMeta(peers[p], dnsDomain))
    /\ UNCHANGED <<peers, statuses, arrays, now, pc, frame, reader, steps>>

DNSLabels == {"", "laptop", "a.b"}
DNSDomains == {"", "netbird.cloud", "x"}

InitEvent ==
    /\ \E l \in DNSLabels, n \in {"", "laptop"}, ip \in {Nil, 1}, st \in {Nil, 1} :
         peers = (P0 :> [BasePeer EXCEPT !.DNSLabel = l, !.Name = n, !.IP = ip,
                                         !.Status = st])
    /\ statuses = IF peers[P0].Status = Nil THEN <<>> ELSE (1 :> BaseStatus)
    /\ arrays = IF peers[P0].IP = Nil THEN <<>> ELSE (1 :> IPv4)
    /\ now = 0
    /\ pc = "idle"
    /\ frame = NoFrame
    /\ reader = NoReader
    /\ call = NoCall
    /\ steps = 0

NextEvent ==
    \/ \E d \in DNSDomains : CallFQDN(P0, d)
    \/ \E d \in DNSDomains : CallEventMeta(P0, d)

SpecEvent == InitEvent /\ [][NextEvent]_vars

\* s is label, then ".", then domain.
IsLabelDotDomain(s, label, domain) ==
    /\ Len(s) = Len(label) + 1 + Len(domain)
    /\ SubSeq(s, 1, Len(label)) = label
    /\ SubSeq(s, Len(label) + 1, Len(label) + 1) = "."
    /\ SubSeq(s, Len(label) + 2, Len(s)) = domain

\* C11 (FQDN): FQDN(dnsDomain) is the empty string when dnsDomain is empty,
\* whatever the DNSLabel, and otherwise exactly DNSLabel, ".", dnsDomain; so
\* it is determined by DNSLabel and dnsDomain alone.
FQDNResult ==
    call.op = "FQDN" =>
        /\ call.arg = "" => call.ret = ""
        /\ call.arg # "" =>
              IsLabelDotDomain(call.ret, call.prePeer.DNSLabel, call.arg)

\* FQDN("") returned "" on a Peer with a DNSLabel, right after
\* FQDN("netbird.cloud") on the same Peer.
FQDNResultWitness ==
    /\ call.op = "FQDN"
    /\ call.arg = ""
    /\ call.prePeer.DNSLabel = "laptop"
    /\ call.ret = ""
    /\ call.prev.op = "FQDN"
    /\ call.prev.arg = "netbird.cloud"

\* C12 (EventMeta): EventMeta(dnsDomain) is a map with exactly the keys
\* "name", "fqdn" and "ip", holding the Peer's Name, its FQDN for dnsDomain
\* (empty when dnsDomain is empty) and its IP.
EventMetaResult ==
    call.op = "EventMeta" =>
        /\ DOMAIN call.ret = {"name", "fqdn", "ip"}
        /\ call.ret["name"] = call.prePeer.Name
        /\ call.arg = "" => call.ret["fqdn"] = ""
        /\ call.arg # "" =>
              IsLabelDotDomain(call.ret["fqdn"], call.prePeer.DNSLabel, call.arg)
        /\ call.ret["ip"] = call.prePeer.IP

\* EventMeta("netbird.cloud") returned on a Peer with a Name, a DNSLabel and
\* an IP.
EventMetaResultWitness ==
    /\ call.op = "EventMeta"
    /\ call.arg = "netbird.cloud"
    /\ call.prePeer.Name = "laptop"
    /\ call.prePeer.IP # Nil
    /\ call.ret["fqdn"] = "laptop.netbird.cloud"

---------------------------------------------------------------------------
(* Lifetime of a Peer: MarkLoginExpired and UpdateLastLogin statement by     *)
(* statement, UpdateMetaIfNew and Copy, in any order                         *)

\* Reports a client sends: nothing new, a new Hostname without UIVersion.
MetaReports ==
    {BaseMeta, [BaseMeta EXCEPT !.Hostname = "other", !.UIVersion = ""]}

\* A Peer as registration leaves it, with no Status or with one that is not
\* both expired and connected.
InitLife ==
    /\ \E st \in {Nil, 1} : peers = (P0 :> [BasePeer EXCEPT !.Status = st])
    /\ \E c \in BOOLEAN, le \in BOOLEAN :
         /\ ~(c /\ le)
         /\ statuses = IF peers[P0].Status = Nil THEN <<>>
                       ELSE (1 :> [LastSeen |-> Time(1, "UTC"), Connected |-> c,
                                   LoginExpired |-> le, RequiresApproval |-> TRUE])
    /\ now = 1
    /\ InitIdle

NextLife ==
    \/ \E e \in BOOLEAN : MLE_142(P0, e)
    \/ \E e \in BOOLEAN : MLE_142_Panic(P0, e)
    \/ MLE_143
    \/ MLE_144
    \/ MLE_147
    \/ ULL_191(P0)
    \/ ULL_192
    \/ ULL_192_Panic
    \/ ULL_193
    \/ ULL_194
    \/ \E m \in MetaReports : CallUpdateMetaIfNew(P0, m)
    \/ CallCopy(P0)

SpecLife == InitLife /\ [][NextLife]_vars

\* The PeerStatus at s is both expired and connected.
ExpiredAndConnected(s) == statuses[s].LoginExpired /\ statuses[s].Connected

\* C13 (expired implies disconnected): from a Status that is not both
\* LoginExpired and Connected, after any sequence of MarkLoginExpired,
\* UpdateLastLogin, UpdateMetaIfNew and Copy, and between any two of their
\* statements, the PeerStatus that p.Status (or the Status of a copy)
\* references is never both LoginExpired and Connected.
ExpiredImpliesDisconnected ==
    \A x \in DOMAIN peers :
        peers[x].Status # Nil => ~ExpiredAndConnected(peers[x].Status)

\* MarkLoginExpired(true) is between its statements on a connected Peer: its
\* newStatus is expired and still connected, p.Status is not yet replaced.
ExpiredImpliesDisconnectedWitness ==
    /\ pc = "MLE_144"
    /\ frame.arg = TRUE
    /\ ExpiredAndConnected(frame.newStatus)
    /\ peers[P0].Status # frame.newStatus
    /\ statuses[peers[P0].Status].Connected

---------------------------------------------------------------------------
(* Sequences of UpdateMetaIfNew *)

\* The UIVersion the Peer stores.
StoredUIVersion == peers[P0].Meta.UIVersion

\* C14 (UIVersion monotonicity): over any sequence of UpdateMetaIfNew calls a
\* stored non-empty UIVersion is never erased: once non-empty it is non-empty
\* ever after, and it changes only in a call whose incoming UIVersion is
\* non-empty and different, to that incoming UIVersion.
UIVersionMonotonicity ==
    /\ [](StoredUIVersion # "" => [](StoredUIVersion # ""))
    /\ [][StoredUIVersion' # StoredUIVersion =>
            /\ call'.op = "UpdateMetaIfNew"
            /\ call'.arg.UIVersion # ""
            /\ call'.arg.UIVersion # StoredUIVersion
            /\ StoredUIVersion' = call'.arg.UIVersion]_vars

\* Two different reports without a UIVersion in a row, the second one stored,
\* and "1.2" is still the stored UIVersion.
UIVersionMonotonicityWitness ==
    /\ call.op = "UpdateMetaIfNew"
    /\ call.prev.op = "UpdateMetaIfNew"
    /\ call.prev.arg.UIVersion = ""
    /\ call.arg.UIVersion = ""
    /\ call.prev.arg # call.arg
    /\ call.ret = TRUE
    /\ StoredUIVersion = "1.2"

---------------------------------------------------------------------------
(* Re-login: UpdateLastLogin, the clock and LoginExpired, with                *)
(* MarkLoginExpired and UpdateMetaIfNew in between                            *)

\* Positive expiration periods.
Periods == {1, 2}

\* An SSO Peer with login expiration enabled that has never logged in again,
\* marked expired or not.
InitRelogin ==
    /\ peers = (P0 :> [BasePeer EXCEPT !.Status = 1])
    /\ \E le \in BOOLEAN :
         statuses = (1 :> [BaseStatus EXCEPT !.LoginExpired = le])
    /\ now = 1
    /\ InitIdle

NextRelogin ==
    \/ ULL_191(P0)
    \/ ULL_192
    \/ ULL_193
    \/ ULL_194
    \/ \E e \in BOOLEAN : MLE_142(P0, e)
    \/ MLE_143
    \/ MLE_144
    \/ MLE_147
    \/ CallUpdateMetaIfNew(P0, [BaseMeta EXCEPT !.Hostname = "other"])
    \/ \E e \in Periods : CallLoginExpired(P0, e)
    \/ TickStatus

SpecRelogin == InitRelogin /\ [][NextRelogin]_vars

\* The last call was LoginExpired with a positive period on an SSO Peer with
\* login expiration enabled that has logged in again.
ReloggedInCall ==
    /\ UngatedCall
    /\ call.arg > 0
    /\ call.prePeer.LastLogin # ZeroTime

\* C15 (clock reset by re-login): UpdateLastLogin sets LastLogin to the time t
\* it ran at, and nothing else changes LastLogin (not MarkLoginExpired, not
\* UpdateMetaIfNew); from then on LoginExpired(expiresIn) with expiresIn > 0
\* on an SSO Peer with login expiration enabled reports expired = false while
\* now < t + expiresIn and expired = true once now >= t + expiresIn, whatever
\* Status.LoginExpired holds.
ClockResetByRelogin ==
    /\ [](JustReturned("UpdateLastLogin") =>
            peers[call.peer].LastLogin = Time(call.clock, "UTC"))
    /\ [][peers'[P0].LastLogin # peers[P0].LastLogin =>
            /\ pc = "idle" /\ pc' = "ULL_192"
            /\ peers'[P0].LastLogin = Time(now, "UTC")]_vars
    /\ [](ReloggedInCall =>
            /\ call.clock >= call.prePeer.LastLogin.wall
            /\ call.ret[1] =
                   (call.clock >= call.prePeer.LastLogin.wall + call.arg))

\* Logged in again at 2, then marked expired by MarkLoginExpired(true);
\* LoginExpired(2) at 3 still answers not expired.
ClockResetByReloginWitness ==
    /\ ReloggedInCall
    /\ call.prev.op = "MarkLoginExpired"
    /\ call.preStatus.LoginExpired
    /\ call.prePeer.LastLogin.wall = 2
    /\ call.clock = 3
    /\ call.arg = 2
    /\ call.ret[1] = FALSE

---------------------------------------------------------------------------
(* What each mutating operation may write *)

\* Fields no operation of the Peer assigns.
CreationFields ==
    {"ID", "AccountID", "Key", "SetupKey", "IP", "Name", "DNSLabel", "UserID",
     "SSHKey", "SSHEnabled", "LoginExpirationEnabled", "Ephemeral", "Location"}

\* This step is a statement of op.
StepOf(op) ==
    \/ pc = "idle" /\ frame'.op = op
    \/ pc # "idle" /\ frame.op = op

\* This step is a whole call of op.
CallOf(op) == pc = "idle" /\ pc' = "idle" /\ call' # call /\ call'.op = op

\* This step leaves the fields of the Peer at P0 outside written as they are.
WritesOnly(written) ==
    \A f \in PeerFields \ written : peers'[P0][f] = peers[P0][f]

\* C16 (frame conditions): every statement of MarkLoginExpired changes no
\* field of the Peer but Status, every statement of UpdateLastLogin none but
\* LastLogin and Status, UpdateMetaIfNew none but Meta; ID, AccountID, Key,
\* SetupKey, IP, Name, DNSLabel, UserID, SSHKey, SSHEnabled,
\* LoginExpirationEnabled, Ephemeral and Location keep their creation values
\* for ever, so ID and AccountID stay non-empty.
FrameConditions ==
    /\ [][/\ StepOf("MarkLoginExpired") => WritesOnly({"Status"})
          /\ StepOf("UpdateLastLogin") => WritesOnly({"LastLogin", "Status"})
          /\ CallOf("UpdateMetaIfNew") => WritesOnly({"Meta"})]_vars
    /\ [](/\ \A f \in CreationFields : peers[P0][f] = BasePeer[f]
          /\ peers[P0].ID # ""
          /\ peers[P0].AccountID # "")

\* The three operations have all written: a new Meta is stored, a login time
\* is stored, and MarkLoginExpired has just replaced the Status, with nothing
\* else changed since before that call.
FrameConditionsWitness ==
    /\ JustReturned("MarkLoginExpired")
    /\ peers[P0].Meta # BaseMeta
    /\ peers[P0].LastLogin # ZeroTime
    /\ peers[P0].Status # call.prePeer.Status
    /\ [peers[P0] EXCEPT !.Status = call.prePeer.Status] = call.prePeer

---------------------------------------------------------------------------
(* Derivations: the operations that only read the Peer *)

\* Reports without a UIVersion, one equal to what is stored otherwise and
\* one with a new Hostname.
BareReports ==
    {[BaseMeta EXCEPT !.UIVersion = ""],
     [BaseMeta EXCEPT !.Hostname = "other", !.UIVersion = ""]}

ReadOnlyOps == {"AddedWithSSOLogin", "LoginExpired", "FQDN", "EventMeta", "Copy"}

\* A Peer of an SSO user or not, with an IP or not, with a Status or not.
InitDerive ==
    /\ \E uid \in {"", "user1"}, ip \in {Nil, 1}, st \in {Nil, 1} :
         peers = (P0 :> [BasePeer EXCEPT !.UserID = uid, !.IP = ip,
                                         !.Status = st])
    /\ \E c \in BOOLEAN, le \in BOOLEAN :
         statuses = IF peers[P0].Status = Nil THEN <<>>
                    ELSE (1 :> [LastSeen |-> Time(1, "UTC"), Connected |-> c,
                                LoginExpired |-> le, RequiresApproval |-> TRUE])
    /\ arrays = IF peers[P0].IP = Nil THEN <<>> ELSE (1 :> IPv4)
    /\ now = 1
    /\ pc = "idle"
    /\ frame = NoFrame
    /\ reader = NoReader
    /\ call = NoCall
    /\ steps = 0

NextDerive ==
    \/ CallAddedWithSSOLogin(P0)
    \/ \E e \in Periods : CallLoginExpired(P0, e)
    \/ \E d \in {"", "netbird.cloud"} : CallFQDN(P0, d)
    \/ \E d \in {"", "netbird.cloud"} : CallEventMeta(P0, d)
    \/ CallCopy(P0)
    \/ \E m \in BareReports : CallUpdateMetaIfNew(P0, m)

SpecDerive == InitDerive /\ [][NextDerive]_vars

\* C17 (read-only derivations): a call of AddedWithSSOLogin, LoginExpired,
\* FQDN, EventMeta or Copy leaves every field of the Peer, the Status
\* reference, the contents of the PeerStatus and the bytes of the IP as they
\* were; after UpdateMetaIfNew(meta) the caller's meta is what the caller
\* passed, with its UIVersion still empty although the stored one was used
\* in its place.
ReadOnlyDerivations ==
    /\ [][(call' # call /\ call'.op \in ReadOnlyOps) =>
            /\ peers'[P0] = peers[P0]
            /\ View(P0)' = View(P0)]_vars
    /\ [](call.op \in ReadOnlyOps =>
            /\ peers[call.peer] = call.prePeer
            /\ StatusView(statuses, peers[call.peer].Status) = call.preStatus)
    /\ [](call.op = "UpdateMetaIfNew" =>
            /\ call.arg \in BareReports
            /\ peers[call.peer].Meta.UIVersion = call.prePeer.Meta.UIVersion)

\* On a Peer that has a Status and an IP, Copy has been called and the last
\* two calls were LoginExpired and EventMeta: the Peer and its PeerStatus are
\* as they were before.
ReadOnlyDerivationsWitness ==
    /\ call.op = "EventMeta"
    /\ call.prev.op = "LoginExpired"
    /\ Cardinality(DOMAIN peers) = 2
    /\ peers[P0].Status # Nil
    /\ peers[P0].IP # Nil
    /\ peers[P0] = call.prePeer
    /\ call.preStatus = StatusView(statuses, peers[P0].Status)

---------------------------------------------------------------------------
(* The expired / not expired cycle of a Peer that has a Status *)

\* Any PeerStatus.
InitCycle ==
    /\ peers = (P0 :> [BasePeer EXCEPT !.Status = 1])
    /\ \E c \in BOOLEAN, le \in BOOLEAN :
         statuses = (1 :> [LastSeen |-> Time(1, "UTC"), Connected |-> c,
                           LoginExpired |-> le, RequiresApproval |-> TRUE])
    /\ now = 1
    /\ InitIdle

NextCycle ==
    \/ \E e \in BOOLEAN : MLE_142(P0, e)
    \/ MLE_143
    \/ MLE_144
    \/ MLE_147
    \/ ULL_191(P0)
    \/ ULL_192
    \/ ULL_193
    \/ ULL_194
    \/ TickStatus

\* A call that has been entered runs its statements to the end: the bodies
\* are straight-line code that waits for nothing.
SpecCycle ==
    /\ InitCycle
    /\ [][NextCycle]_vars
    /\ WF_vars(MLE_143) /\ WF_vars(MLE_144) /\ WF_vars(MLE_147)
    /\ WF_vars(ULL_192) /\ WF_vars(ULL_193) /\ WF_vars(ULL_194)

\* The call in progress, if any.
Running(op, arg) == pc # "idle" /\ frame.op = op /\ frame.arg = arg

\* The last call has returned and p.Status.LoginExpired is le.
ReturnedWith(op, arg, le) ==
    /\ JustReturned(op)
    /\ call.arg = arg
    /\ statuses[peers[P0].Status].LoginExpired = le

\* C18 (no terminal status state): whatever the PeerStatus of a Peer with a
\* Status holds, MarkLoginExpired(true), MarkLoginExpired(false) and
\* UpdateLastLogin can be called whenever no call is running, a statement can
\* always run, and each call arrives where it is going: MarkLoginExpired(true)
\* at LoginExpired = true, MarkLoginExpired(false) and UpdateLastLogin at
\* LoginExpired = false. The cycle never comes to an end.
NoTerminalStatus ==
    /\ [](pc = "idle" => /\ ENABLED MLE_142(P0, TRUE)
                         /\ ENABLED MLE_142(P0, FALSE)
                         /\ ENABLED ULL_191(P0))
    /\ [](ENABLED (MLE_143 \/ MLE_144 \/ MLE_147 \/ ULL_192 \/ ULL_193
                   \/ ULL_194 \/ MLE_142(P0, TRUE) \/ ULL_191(P0)))
    /\ (Running("MarkLoginExpired", TRUE)
           ~> ReturnedWith("MarkLoginExpired", TRUE, TRUE))
    /\ (Running("MarkLoginExpired", FALSE)
           ~> ReturnedWith("MarkLoginExpired", FALSE, FALSE))
    /\ (Running("UpdateLastLogin", Nil)
           ~> ReturnedWith("UpdateLastLogin", Nil, FALSE))

\* Round the cycle: expired, logged in again, and expired again by the call
\* that has just returned.
NoTerminalStatusWitness ==
    /\ ReturnedWith("MarkLoginExpired", TRUE, TRUE)
    /\ call.prev.op = "UpdateLastLogin"
    /\ call.preStatus.LoginExpired = FALSE
    /\ peers[P0].LastLogin # ZeroTime

---------------------------------------------------------------------------
(* A Peer without a Status *)

StatusOps == {"MarkLoginExpired", "UpdateLastLogin"}
OtherOps == {"Copy", "UpdateMetaIfNew", "LoginExpired", "FQDN", "EventMeta",
             "AddedWithSSOLogin"}

\* A Peer with no Status, or with one.
InitAbsent ==
    /\ \E st \in {Nil, 1} : peers = (P0 :> [BasePeer EXCEPT !.Status = st])
    /\ statuses = IF peers[P0].Status = Nil THEN <<>> ELSE (1 :> BaseStatus)
    /\ now = 1
    /\ InitIdle

NextAbsent ==
    \/ \E e \in BOOLEAN : MLE_142(P0, e)
    \/ \E e \in BOOLEAN : MLE_142_Panic(P0, e)
    \/ MLE_143
    \/ MLE_144
    \/ MLE_147
    \/ ULL_191(P0)
    \/ ULL_192
    \/ ULL_192_Panic
    \/ ULL_193
    \/ ULL_194
    \/ CallCopy(P0)
    \/ CallUpdateMetaIfNew(P0, [BaseMeta EXCEPT !.Hostname = "other"])
    \/ CallLoginExpired(P0, 1)
    \/ CallFQDN(P0, "netbird.cloud")
    \/ CallEventMeta(P0, "netbird.cloud")
    \/ CallAddedWithSSOLogin(P0)

SpecAbsent == InitAbsent /\ [][NextAbsent]_vars

\* The Peer at P0 has no Status.
Absent == peers[P0].Status = Nil

\* C19 (absent status is fatal): MarkLoginExpired and UpdateLastLogin on a
\* Peer whose Status is nil end in a panic at the dereference, from which
\* nothing runs any more; they never return and leave Status nil with no
\* PeerStatus created. Copy, UpdateMetaIfNew, LoginExpired, FQDN, EventMeta
\* and AddedWithSSOLogin can be called on such a Peer and return; a panic
\* never comes from them.
AbsentStatusIsFatal ==
    /\ [][(Absent /\ (StepOf("MarkLoginExpired") \/ pc = "ULL_192"))
             => pc' = "panic"]_vars
    /\ [](pc = "panic" => /\ frame.op \in StatusOps
                          /\ frame.prePeer.Status = Nil
                          /\ Absent
                          /\ DOMAIN statuses = {}
                          /\ ~ENABLED NextAbsent)
    /\ [](call.op \in StatusOps => call.prePeer.Status # Nil)
    /\ []((pc = "idle" /\ Absent) =>
            /\ HasRoom(peers, PeerAddr) => ENABLED CallCopy(P0)
            /\ ENABLED CallUpdateMetaIfNew(P0, BaseMeta)
            /\ ENABLED CallLoginExpired(P0, 1)
            /\ ENABLED CallFQDN(P0, "netbird.cloud")
            /\ ENABLED CallEventMeta(P0, "netbird.cloud")
            /\ ENABLED CallAddedWithSSOLogin(P0))
    /\ [][\A op \in OtherOps : CallOf(op) <=>
              (pc = "idle" /\ call' # call /\ call'.op = op)]_vars

\* UpdateLastLogin has panicked on a Peer without a Status after Copy and
\* LoginExpired had returned on it; the copy has no Status either.
AbsentStatusIsFatalWitness ==
    /\ pc = "panic"
    /\ frame.op = "UpdateLastLogin"
    /\ Absent
    /\ call.op = "LoginExpired"
    /\ call.prev.op = "Copy"
    /\ call.prePeer.Status = Nil
    /\ \E c \in DOMAIN peers \ {P0} : peers[c].Status = Nil

====
